---- MODULE Spec2Model ----
(***************************************************************************)
(* State-machine model of the SMP-over-UDP recovery server of MCUboot      *)
(* (boot/zephyr/boot_udp.c) running on the Espressif flash-map back end    *)
(* (boot/espressif/port/esp_mcuboot.c).                                    *)
(*                                                                         *)
(* Scaling.  The flash device is scaled down: one erase sector holds one   *)
(* 4-byte alignment unit, the secondary slot is AreaSectors sectors long   *)
(* and starts one sector into the device.  uint32_t arithmetic of the      *)
(* flash wrappers wraps at 2^WrapBits instead of 2^32.                     *)
(*                                                                         *)
(* External collaborators.  The raw SPI-flash driver stores the bytes it   *)
(* is given (word granular: address and length must be multiples of 4)     *)
(* and may report failure; the upload hook, boot_set_pending_multi, the    *)
(* image validator and the swap-type query are oracles whose answers are   *)
(* drawn per request (the env record).                                     *)
(***************************************************************************)
EXTENDS Integers, Sequences, FiniteSets, TLC

(* ------------------------------------------------------------------ *)
(* Program constants                                                   *)
(* ------------------------------------------------------------------ *)
MGMT_ERR_OK == 0
MGMT_ERR_ENOMEM == 2
MGMT_ERR_EINVAL == 3
MGMT_ERR_ENOENT == 5
MGMT_ERR_ENOTSUP == 8
NMGR_OP_READ == 0
NMGR_OP_WRITE == 2
MGMT_GROUP_ID_OS == 0
MGMT_GROUP_ID_IMAGE == 1
MGMT_GROUP_ID_PERUSER == 64
NMGR_ID_RESET == 5
NMGR_ID_PARAMS == 6
NMGR_ID_STATE == 0
NMGR_ID_UPLOAD == 1
NMGR_ID_SLOT_INFO == 6
IMAGE_HASH_SIZE == 32
UDP_BUFFER_SIZE == 2048
BS_OBUF_SIZE == 1024
NMGR_HDR_SIZE == 8
BOOT_NUM_SLOTS == 2
FLASH_BUFFER_SIZE == 256
FLASH_ALIGN == 4
ERASED_VAL == 255
PROGRESS_TOTAL == 100

(* ------------------------------------------------------------------ *)
(* Bounds of the model                                                 *)
(* ------------------------------------------------------------------ *)
AreaSectors == 2
MaxChunk == 6
WrapBits == 8
NearArgs == 12
ReadSpan == 3

U32 == 2 ^ WrapBits
FLASH_SECTOR_SIZE == FLASH_ALIGN
APPLICATION_SIZE == AreaSectors * FLASH_SECTOR_SIZE
APPLICATION_SECONDARY_START_ADDRESS == FLASH_SECTOR_SIZE

Absent == 0 - 1
NULL == 0 - 1

Min(a, b) == IF a < b THEN a ELSE b
ALIGN_UP(num, align) == ((num + (align - 1)) \div align) * align
ALIGN_DOWN(num, align) == (num \div align) * align
ALIGN_OFFSET(num, align) == num % align
IS_ALIGNED(num, align) == ALIGN_OFFSET(num, align) = 0

(* ------------------------------------------------------------------ *)
(* Flash-area registry (esp_mcuboot.c)                                 *)
(* ------------------------------------------------------------------ *)
FLASH_DEVICE_INTERNAL_FLASH == 0
FLASH_AREA_IMAGE_PRIMARY(x) == IF x = 0 THEN 1 ELSE 255
FLASH_AREA_IMAGE_SECONDARY(x) == IF x = 0 THEN 2 ELSE 255

primary_img0 ==
    [fa_id |-> FLASH_AREA_IMAGE_PRIMARY(0), fa_device_id |-> FLASH_DEVICE_INTERNAL_FLASH,
     fa_off |-> APPLICATION_SECONDARY_START_ADDRESS + APPLICATION_SIZE + FLASH_SECTOR_SIZE,
     fa_size |-> APPLICATION_SIZE]

secondary_img0 ==
    [fa_id |-> FLASH_AREA_IMAGE_SECONDARY(0), fa_device_id |-> FLASH_DEVICE_INTERNAL_FLASH,
     fa_off |-> APPLICATION_SECONDARY_START_ADDRESS,
     fa_size |-> APPLICATION_SIZE]

s_flash_areas == <<primary_img0, secondary_img0>>

NoArea == [fa_id |-> NULL, fa_device_id |-> NULL, fa_off |-> 0, fa_size |-> 0]

prv_lookup_flash_area(id) ==
    LET hits == {i \in 1..Len(s_flash_areas) : s_flash_areas[i].fa_id = id}
    IN IF hits = {} THEN NoArea
       ELSE s_flash_areas[CHOOSE i \in hits : \A j \in hits : i <= j]

\* rc = 0 and the area, or rc = -1 and a null handle
flash_area_open(id) ==
    LET area == prv_lookup_flash_area(id)
    IN [rc |-> IF area # NoArea THEN 0 ELSE 0 - 1, fap |-> area]

flash_area_id_from_multi_image_slot(image_index, slot) ==
    CASE slot = 0 -> FLASH_AREA_IMAGE_PRIMARY(image_index)
      [] slot = 1 -> FLASH_AREA_IMAGE_SECONDARY(image_index)
      [] OTHER -> 255

flash_area_get_size(fap) == fap.fa_size
flash_area_align(fap) == FLASH_ALIGN
\* a variant that reports zero as the erased value
flash_area_erased_val_zero(fap) == 0
flash_area_erased_val(fap) == ERASED_VAL

(* ------------------------------------------------------------------ *)
(* Raw flash driver: the modelled part of the device is the secondary  *)
(* slot and the alignment unit that follows it.                        *)
(* ------------------------------------------------------------------ *)
FlashAddrs ==
    APPLICATION_SECONDARY_START_ADDRESS ..
        (APPLICATION_SECONDARY_START_ADDRESS + APPLICATION_SIZE + FLASH_ALIGN - 1)

RawOp(op, addr, len) == [op |-> op, addr |-> addr, len |-> len]

ByteAt(mem, a) == IF a \in DOMAIN mem THEN mem[a] ELSE 0

\* a byte of a word the device fails to read
Unreadable == 0 - 1

\* bootloader_flash_read(addr, dest, size, true)
bootloader_flash_read(mem, addr, size, ok) ==
    LET good == /\ ok /\ IS_ALIGNED(addr, 4) /\ IS_ALIGNED(size, 4)
                /\ \A i \in 1..size : ByteAt(mem, addr + i - 1) # Unreadable
    IN [ok |-> good,
        data |-> [i \in 1..size |-> IF good THEN ByteAt(mem, addr + i - 1) ELSE 0],
        op |-> RawOp("read", addr, size)]

\* bootloader_flash_write(addr, src, size, false)
bootloader_flash_write(mem, addr, src, size, ok) ==
    LET good == ok /\ IS_ALIGNED(addr, 4) /\ IS_ALIGNED(size, 4)
    IN [ok |-> good,
        mem |-> IF good
                THEN [a \in DOMAIN mem |->
                        IF a >= addr /\ a < addr + size THEN src[a - addr + 1] ELSE mem[a]]
                ELSE mem,
        op |-> RawOp("write", addr, size)]

\* bootloader_flash_erase_range(addr, len)
bootloader_flash_erase_range(mem, addr, len, ok) ==
    [ok |-> ok,
     mem |-> IF ok
             THEN [a \in DOMAIN mem |->
                     IF a >= addr /\ a < addr + len THEN ERASED_VAL ELSE mem[a]]
             ELSE mem,
     op |-> RawOp("erase", addr, len)]

(* ------------------------------------------------------------------ *)
(* Aligned flash I/O (esp_mcuboot.c)                                   *)
(* ------------------------------------------------------------------ *)
RECURSIVE aligned_flash_read_rest(_, _, _, _, _, _, _)
\* one turn of the while loop of aligned_flash_read, r the raw read it made
aligned_flash_read_turn(mem, aligned_addr, offset, bytes_remaining, data, ops, ok, bytes, r) ==
    IF ~r.ok
    THEN [ok |-> FALSE, data |-> data, ops |-> Append(ops, r.op)]
    ELSE aligned_flash_read_rest(mem, aligned_addr, offset + bytes, bytes_remaining - bytes,
                                 data \o SubSeq(r.data, 1, bytes), Append(ops, r.op), ok)

\* the while loop of aligned_flash_read: buffer-sized reads after the first
aligned_flash_read_rest(mem, aligned_addr, offset, bytes_remaining, data, ops, ok) ==
    IF bytes_remaining = 0
    THEN [ok |-> TRUE, data |-> data, ops |-> ops]
    ELSE aligned_flash_read_turn(
             mem, aligned_addr, offset, bytes_remaining, data, ops, ok,
             Min(bytes_remaining, FLASH_BUFFER_SIZE),
             bootloader_flash_read(mem, aligned_addr + offset,
                                   ALIGN_UP(Min(bytes_remaining, FLASH_BUFFER_SIZE), 4), ok))

\* the fast path: everything aligned, r the single raw read
aligned_flash_read_fast(r) ==
    [ok |-> r.ok, data |-> IF r.ok THEN r.data ELSE <<>>, ops |-> <<r.op>>]

\* a variant that copies from the start of the buffer
aligned_flash_read_first_unskipped(mem, aligned_addr, addr_offset, size, ok, bytes, r) ==
    IF ~r.ok
    THEN [ok |-> FALSE, data |-> <<>>, ops |-> <<r.op>>]
    ELSE aligned_flash_read_rest(mem, aligned_addr, bytes, size - (bytes - addr_offset),
                                 SubSeq(r.data, 1, bytes - addr_offset), <<r.op>>, ok)
\* the slow path after its first raw read r of bytes bytes
aligned_flash_read_first(mem, aligned_addr, addr_offset, size, ok, bytes, r) ==
    IF ~r.ok
    THEN [ok |-> FALSE, data |-> <<>>, ops |-> <<r.op>>]
    ELSE aligned_flash_read_rest(mem, aligned_addr, bytes, size - (bytes - addr_offset),
                                 SubSeq(r.data, addr_offset + 1, bytes), <<r.op>>, ok)

\* data: the bytes copied to dest so far (all size bytes when ok)
aligned_flash_read(mem, addr, dest_aligned, size, ok) ==
    IF IS_ALIGNED(addr, 4) /\ dest_aligned /\ IS_ALIGNED(size, 4)
    THEN aligned_flash_read_fast(bootloader_flash_read(mem, addr, size, ok))
    ELSE aligned_flash_read_first(
             mem, ALIGN_DOWN(addr, 4), ALIGN_OFFSET(addr, 4), size, ok,
             Min(size + ALIGN_OFFSET(addr, 4), FLASH_BUFFER_SIZE),
             bootloader_flash_read(
                 mem, ALIGN_DOWN(addr, 4),
                 ALIGN_UP(Min(size + ALIGN_OFFSET(addr, 4), FLASH_BUFFER_SIZE), 4), ok))

\* the return of flash_area_read after aligned_flash_read returned r
flash_area_read_rc(r) == [rc |-> IF r.ok THEN 0 ELSE 0 - 1, data |-> r.data, ops |-> r.ops]

flash_area_read(fa, off, dest_aligned, len, mem, ok) ==
    IF fa.fa_device_id # FLASH_DEVICE_INTERNAL_FLASH
    THEN [rc |-> 0 - 1, data |-> <<>>, ops |-> <<>>]
    ELSE IF (off + len) % U32 > fa.fa_size
    THEN [rc |-> 0 - 1, data |-> <<>>, ops |-> <<>>]
    ELSE flash_area_read_rc(
             aligned_flash_read(mem, (fa.fa_off + off) % U32, dest_aligned, len, ok))

\* write_data as flash_area_write builds it for len < 4: zero-initialised,
\* filled by the read r when that succeeds, then overlaid with the len source bytes
write_data(r, src, len) ==
    [data |-> [i \in 1..4 |-> IF i <= len THEN src[i]
                              ELSE IF r.rc = 0 THEN r.data[i] ELSE 0],
     ops |-> r.ops]

\* the len < 4 branch: flash_area_read(fa, start_addr, &write_data, 4) is handed
\* the absolute address as the offset into the area
PartialWord(fa, start_addr, src, len, mem, read_ok) ==
    write_data(flash_area_read(fa, start_addr, TRUE, 4, mem, read_ok), src, len)

\* the return of flash_area_write after the raw write w; ops are the raw
\* operations made before it
flash_area_write_rc(ops, w) ==
    [rc |-> IF w.ok THEN 0 ELSE 0 - 1, mem |-> w.mem, ops |-> Append(ops, w.op)]

\* the raw write of flash_area_write, pw what write_ptr points to
flash_area_write_raw(start_addr, pw, write_len, mem, write_ok) ==
    flash_area_write_rc(pw.ops, bootloader_flash_write(mem, start_addr, pw.data, write_len, write_ok))

flash_area_write(fa, off, src, len, mem, read_ok, write_ok) ==
    IF fa.fa_device_id # FLASH_DEVICE_INTERNAL_FLASH
    THEN [rc |-> 0 - 1, mem |-> mem, ops |-> <<>>]
    ELSE IF (off + len) % U32 > fa.fa_size
    THEN [rc |-> 0 - 1, mem |-> mem, ops |-> <<>>]
    ELSE IF len < 4
    THEN flash_area_write_raw((fa.fa_off + off) % U32,
                              PartialWord(fa, (fa.fa_off + off) % U32, src, len, mem, read_ok),
                              4, mem, write_ok)
    ELSE flash_area_write_raw((fa.fa_off + off) % U32, [data |-> src, ops |-> <<>>],
                              len, mem, write_ok)

\* the return of flash_area_erase after the raw erase e
flash_area_erase_rc(e) == [rc |-> IF e.ok THEN 0 ELSE 0 - 1, mem |-> e.mem, ops |-> <<e.op>>]

\* a variant that tests the alignment of len only
flash_area_erase_any_off(fa, off, len, mem, ok) ==
    IF fa.fa_device_id # FLASH_DEVICE_INTERNAL_FLASH
    THEN [rc |-> 0 - 1, mem |-> mem, ops |-> <<>>]
    ELSE IF (len % FLASH_SECTOR_SIZE) # 0
    THEN [rc |-> 0 - 1, mem |-> mem, ops |-> <<>>]
    ELSE flash_area_erase_rc(bootloader_flash_erase_range(mem, (fa.fa_off + off) % U32, len, ok))
flash_area_erase(fa, off, len, mem, ok) ==
    IF fa.fa_device_id # FLASH_DEVICE_INTERNAL_FLASH
    THEN [rc |-> 0 - 1, mem |-> mem, ops |-> <<>>]
    ELSE IF (len % FLASH_SECTOR_SIZE) # 0 \/ (off % FLASH_SECTOR_SIZE) # 0
    THEN [rc |-> 0 - 1, mem |-> mem, ops |-> <<>>]
    ELSE flash_area_erase_rc(bootloader_flash_erase_range(mem, (fa.fa_off + off) % U32, len, ok))

(* ------------------------------------------------------------------ *)
(* CBOR encoder (zcbor) as used by boot_udp.c: the items written to    *)
(* bs_obuf since the last reset, and the bytes they occupy             *)
(* ------------------------------------------------------------------ *)
Tok(k, s, n) == [k |-> k, s |-> s, n |-> n]
MapStart == Tok("map", "", 0)
MapEnd == Tok("end", "", 0)
ListStart == Tok("list", "", 0)
ListEnd == Tok("end", "", 0)
Tstr(s) == Tok("tstr", s, 0)
IntTok(n) == Tok("int", "", n)
BoolTok(b) == Tok("bool", IF b THEN "true" ELSE "false", 0)
Bstr(s, n) == Tok("bstr", s, n)

StrLen(s) ==
    CASE s = "rc" -> 2
      [] s = "off" -> 3
      [] s \in {"slot", "hash", "size"} -> 4
      [] s \in {"image", "slots", "1.0.0"} -> 5
      [] s \in {"images", "active"} -> 6
      [] s \in {"pending", "version"} -> 7
      [] s \in {"bootable", "buf_size"} -> 8
      [] s \in {"confirmed", "permanent", "buf_count"} -> 9
      [] s = "upload_image_id" -> 15
      [] OTHER -> 0

\* bytes of a CBOR head carrying the unsigned argument n
HeadLen(n) ==
    LET a == IF n < 0 THEN (0 - 1) - n ELSE n
    IN IF a < 24 THEN 1 ELSE IF a < 256 THEN 2 ELSE IF a < 65536 THEN 3 ELSE 5

TokLen(t) ==
    CASE t.k \in {"map", "list", "end", "bool"} -> 1
      [] t.k = "tstr" -> HeadLen(StrLen(t.s)) + StrLen(t.s)
      [] t.k = "int" -> HeadLen(t.n)
      [] t.k = "bstr" -> HeadLen(t.n) + t.n
      [] OTHER -> 0

RECURSIVE CborLen(_)
\* cbor_state->payload_mut - bs_obuf
CborLen(toks) == IF toks = <<>> THEN 0 ELSE TokLen(Head(toks)) + CborLen(Tail(toks))

\* zcbor_new_encode_state(cbor_state, 2, bs_obuf, sizeof(bs_obuf), 0)
reset_cbor_state(m) == [m EXCEPT !.cbor = <<>>]

\* an encode call: appends the items when they fit into bs_obuf
Encode(m, toks) ==
    IF CborLen(m.cbor \o toks) <= BS_OBUF_SIZE THEN [m EXCEPT !.cbor = @ \o toks] ELSE m

EncodeOk(m, toks) == CborLen(m.cbor \o toks) <= BS_OBUF_SIZE

(* ------------------------------------------------------------------ *)
(* SMP framing (boot_udp.c)                                            *)
(* ------------------------------------------------------------------ *)
\* byte swap of a 16-bit value: htons and ntohs on the little-endian target
Swap16(x) == (x % 256) * 256 + ((x \div 256) % 256)
htons(x) == Swap16(x)
ntohs(x) == Swap16(x)

Call(f, a, b) == [f |-> f, a |-> a, b |-> b]

\* the datagram that zsock_sendto puts on the wire: header fields as the peer
\* reads them (length and group big-endian), the payload items, the destination
Wire(hdr, payload, to) ==
    [nh_len |-> Swap16(hdr.nh_len), group |-> Swap16(hdr.nh_group),
     seq |-> hdr.nh_seq, id |-> hdr.nh_id, op |-> hdr.nh_op, payload |-> payload, to |-> to]

boot_grp_send(m) ==
    LET len == CborLen(m.cbor)
        hdr == [m.hdr EXCEPT !.nh_len = htons(len), !.nh_group = htons(m.hdr.nh_group)]
    IN [m EXCEPT !.hdr = hdr,
                 !.sent = Append(@, Wire(hdr, m.cbor, m.client)),
                 !.calls = Append(@, Call("sendto", len + NMGR_HDR_SIZE, 0))]

bs_rc_rsp(m, rc_code) ==
    boot_grp_send(Encode(m, <<MapStart, Tstr("rc"), IntTok(rc_code), MapEnd>>))

(* ------------------------------------------------------------------ *)
(* Upload handler (boot_udp.c, bs_upload)                              *)
(* ------------------------------------------------------------------ *)
Fault(m, why) == [m EXCEPT !.halt = why]

\* idx '#' characters and total - idx blanks are stored into sbuf[256]: an idx
\* outside 0..total makes the second memset length negative (a huge size_t)
proccess_bar_print(m, idx, total) ==
    IF idx < 0 \/ idx > total
    THEN Fault(m, "fault_progress_overflow")
    ELSE [m EXCEPT !.calls = Append(@, Call("printf", idx, total))]

\* label out: the reply of bs_upload
bs_upload_out(m, rc) ==
    boot_grp_send(
        Encode(m, <<MapStart, Tstr("rc"), IntTok(rc)>>
                  \o (IF rc = 0 THEN <<Tstr("off"), IntTok(m.curr_off)>> ELSE <<>>)
                  \o <<MapEnd>>))

\* a variant that sets the image pending whatever the hook returned
bs_upload_hooked_always(m, env) ==
    bs_upload_out([m EXCEPT !.calls = Append(@, Call("boot_set_pending_multi", 0, 1))],
                  IF env.hook_rc # 0 THEN env.hook_rc ELSE env.pend_rc)
\* lines 478-485: the hook has been called; boot_set_pending_multi(0, true)
\* follows unless the hook failed
bs_upload_hooked(m, env) ==
    IF env.hook_rc # 0
    THEN bs_upload_out(m, env.hook_rc)
    ELSE bs_upload_out([m EXCEPT !.calls = Append(@, Call("boot_set_pending_multi", 0, 1))],
                       env.pend_rc)

\* lines 477-486, after curr_off advanced
bs_upload_end(m, env) ==
    IF m.curr_off = m.img_size
    THEN bs_upload_hooked(
             [m EXCEPT !.calls =
                 Append(@, Call("boot_serial_uploaded_hook", m.img_num, m.img_size))],
             env)
    ELSE bs_upload_out(m, 0)

\* lines 475-486: rc == 0, the cursor advances
bs_upload_commit(m, advance, env) ==
    bs_upload_end([m EXCEPT !.curr_off = @ + advance], env)

\* the machine after flash I/O w
Wrote(m, w) == [m EXCEPT !.flash = w.mem, !.raw = @ \o w.ops]

\* lines 475-490: w is the last flash_area_write made
bs_upload_written(m, advance, env, w) ==
    IF w.rc = 0
    THEN bs_upload_commit(Wrote(m, w), advance, env)
    ELSE bs_upload_out(Wrote(m, w), MGMT_ERR_EINVAL)

\* lines 469-471: the residual bytes in a word of the erased value
wbs_aligned(fap, img_chunk, img_chunk_len, rem_bytes) ==
    [i \in 1..FLASH_ALIGN |->
        IF i <= rem_bytes THEN img_chunk[img_chunk_len + i] ELSE flash_area_erased_val(fap)]

\* lines 468-474: w1 is the write of the aligned part; the tail follows it
bs_upload_tail(m, fap, img_chunk, img_chunk_len, rem_bytes, env, w1) ==
    IF w1.rc = 0 /\ rem_bytes # 0
    THEN bs_upload_written(
             Wrote(m, w1), img_chunk_len + rem_bytes, env,
             flash_area_write(fap, m.curr_off + img_chunk_len,
                              wbs_aligned(fap, img_chunk, img_chunk_len, rem_bytes),
                              flash_area_align(fap), w1.mem, env.read_ok, env.write_fail # 2))
    ELSE bs_upload_written(m, img_chunk_len + rem_bytes, env, w1)

\* line 467: the write of the aligned part (m.halt: the progress line faulted)
bs_upload_flash(m, fap, img_chunk, img_chunk_len, rem_bytes, env) ==
    IF m.halt # ""
    THEN m
    ELSE bs_upload_tail(m, fap, img_chunk, img_chunk_len, rem_bytes, env,
                        flash_area_write(fap, m.curr_off, img_chunk, img_chunk_len, m.flash,
                                         env.read_ok, env.write_fail # 1))

\* curr_off * 100 / img_size with img_size # 0 (an area below 2^32 / 100 bytes:
\* the product does not wrap)
Percent(off, size) == (off * 100) \div size

\* lines 463-466: the two percentages; a division by zero traps or goes on
bs_upload_progress(m, fap, img_chunk, img_chunk_len, rem_bytes, env) ==
    IF m.img_size = 0
    THEN IF env.div0 = "trap"
         THEN Fault(m, "fault_div0")
         ELSE bs_upload_flash(m, fap, img_chunk, img_chunk_len, rem_bytes, env)
    ELSE IF Percent(m.curr_off, m.img_size) # Percent(m.curr_off + img_chunk_len, m.img_size)
    THEN bs_upload_flash(
             proccess_bar_print(m, Percent(m.curr_off + img_chunk_len, m.img_size),
                                PROGRESS_TOTAL),
             fap, img_chunk, img_chunk_len, rem_bytes, env)
    ELSE bs_upload_flash(m, fap, img_chunk, img_chunk_len, rem_bytes, env)

\* lines 459-461: rem_bytes is dropped when the chunk does not reach img_size
bs_upload_split(m, fap, img_chunk, img_chunk_len, rem_bytes, env) ==
    bs_upload_progress(m, fap, img_chunk, img_chunk_len,
                       IF m.curr_off + img_chunk_len + rem_bytes < m.img_size
                       THEN 0 ELSE rem_bytes,
                       env)

\* lines 457-458: the chunk is split at the last alignment boundary
bs_upload_write(m, fap, img_chunk, chunk_len, env) ==
    bs_upload_split(m, fap, img_chunk, chunk_len - (chunk_len % flash_area_align(fap)),
                    chunk_len % flash_area_align(fap), env)

\* lines 446-449: e is the erase of the whole area
bs_upload_erased(m, fap, pl, img_chunk, env, e) ==
    IF e.rc # 0
    THEN bs_upload_out(Wrote(m, e), MGMT_ERR_EINVAL)
    ELSE bs_upload_write([Wrote(m, e) EXCEPT !.img_size = pl.len], fap, img_chunk,
                         Len(img_chunk), env)

\* a variant that erases the area before it looks at the total length
bs_upload_first_erasing(m, fap, pl, img_chunk, env) ==
    IF pl.len = Absent \/ pl.len > flash_area_get_size(fap)
    THEN bs_upload_out(
             Wrote(m, flash_area_erase(fap, 0, flash_area_get_size(fap), m.flash, env.erase_ok)),
             MGMT_ERR_EINVAL)
    ELSE bs_upload_erased(m, fap, pl, img_chunk, env,
                          flash_area_erase(fap, 0, flash_area_get_size(fap), m.flash,
                                           env.erase_ok))
\* lines 440-449: offset 0, curr_off has been reset
bs_upload_first(m, fap, pl, img_chunk, env) ==
    IF pl.len = Absent \/ pl.len > flash_area_get_size(fap)
    THEN bs_upload_out(m, MGMT_ERR_EINVAL)
    ELSE bs_upload_erased(m, fap, pl, img_chunk, env,
                          flash_area_erase(fap, 0, flash_area_get_size(fap), m.flash,
                                           env.erase_ok))

\* a variant that restarts only when no upload is in flight
bs_upload_area_absorbing(m, fap, pl, img_chunk, env) ==
    IF pl.off = 0 /\ m.curr_off = 0
    THEN bs_upload_first(m, fap, pl, img_chunk, env)
    ELSE IF pl.off # m.curr_off
    THEN bs_upload_out(m, 0)
    ELSE IF m.curr_off + Len(img_chunk) > m.img_size
    THEN bs_upload_out(m, MGMT_ERR_EINVAL)
    ELSE bs_upload_write(m, fap, img_chunk, Len(img_chunk), env)
\* lines 439-456: offset 0 restarts the upload, another offset must be the cursor
bs_upload_area(m, fap, pl, img_chunk, env) ==
    IF pl.off = 0
    THEN bs_upload_first([m EXCEPT !.curr_off = 0], fap, pl, img_chunk, env)
    ELSE IF pl.off # m.curr_off
    THEN bs_upload_out(m, 0)
    ELSE IF m.curr_off + Len(img_chunk) > m.img_size
    THEN bs_upload_out(m, MGMT_ERR_EINVAL)
    ELSE bs_upload_write(m, fap, img_chunk, Len(img_chunk), env)

\* lines 434-438: o is what flash_area_open returned
bs_upload_opened(m, o, pl, img_chunk, env) ==
    IF o.rc # 0
    THEN bs_upload_out(m, MGMT_ERR_EINVAL)
    ELSE bs_upload_area(m, o.fap, pl, img_chunk, env)

\* lines 421-434: img_chunk is img_chunk_data as the decoder left it
bs_upload_decoded(m, pl, img_chunk, env) ==
    IF pl.off = Absent \/ img_chunk.null
    THEN bs_upload_out(m, MGMT_ERR_EINVAL)
    ELSE IF pl.off = 0
    THEN bs_upload_opened(
             [m EXCEPT !.img_num = IF pl.image # Absent THEN pl.image ELSE 0],
             flash_area_open(flash_area_id_from_multi_image_slot(
                                 IF pl.image # Absent THEN pl.image ELSE 0, 1)),
             pl, img_chunk.bytes, env)
    ELSE bs_upload_opened(m, flash_area_open(flash_area_id_from_multi_image_slot(m.img_num, 1)),
                          pl, img_chunk.bytes, env)

\* pl: the decoded payload map; a key that is absent leaves its variable at the
\* initial value (SIZE_MAX, UINT_MAX), except img_chunk_data, which has none:
\* env.ub_chunk is what the uninitialised img_chunk_data then holds
bs_upload(m, pl, env) ==
    IF ~pl.map
    THEN bs_upload_out(m, MGMT_ERR_EINVAL)
    ELSE bs_upload_decoded(m, pl,
                           IF pl.has_data THEN [null |-> FALSE, bytes |-> pl.data]
                           ELSE env.ub_chunk,
                           env)

(* ------------------------------------------------------------------ *)
(* Image list / set handlers (boot_udp.c, bs_list, bs_set)             *)
(* ------------------------------------------------------------------ *)
BOOT_IMAGE_NUMBER == 1
BOOT_PRIMARY_SLOT == 0

\* the flags of one slot, lines 197-221
SlotFlags(swap_status, slot) ==
    LET prim == slot = BOOT_PRIMARY_SLOT
    IN CASE swap_status = "NONE" ->
              [confirmed |-> prim, active |-> prim, pending |-> FALSE, permanent |-> FALSE]
         [] swap_status = "TEST" ->
              [confirmed |-> prim, active |-> FALSE, pending |-> ~prim, permanent |-> FALSE]
         [] swap_status = "PERM" ->
              [confirmed |-> prim, active |-> FALSE, pending |-> ~prim, permanent |-> ~prim]
         [] swap_status = "REVERT" ->
              [confirmed |-> ~prim, active |-> prim, pending |-> FALSE, permanent |-> FALSE]
         [] OTHER ->
              [confirmed |-> FALSE, active |-> FALSE, pending |-> FALSE, permanent |-> FALSE]

\* fih_rc after lines 179-188: FIH_SUCCESS only when the magic matched and the
\* check hook or bootutil_img_validate said so
\* a variant that reports every slot whose magic matches
bs_list_validated_by_magic(se) == se.magic
bs_list_validated(se) == se.magic /\ se.valid

\* the map of one reported slot, lines 196-252
bs_list_slot(swap_status, slot, se) ==
    LET f == SlotFlags(swap_status, slot)
    IN <<MapStart>>
       \o (IF ~se.nonboot THEN <<Tstr("bootable"), BoolTok(TRUE)>> ELSE <<>>)
       \o (IF f.confirmed THEN <<Tstr("confirmed"), BoolTok(TRUE)>> ELSE <<>>)
       \o (IF f.active THEN <<Tstr("active"), BoolTok(TRUE)>> ELSE <<>>)
       \o (IF f.pending THEN <<Tstr("pending"), BoolTok(TRUE)>> ELSE <<>>)
       \o (IF f.permanent THEN <<Tstr("permanent"), BoolTok(TRUE)>> ELSE <<>>)
       \o <<Tstr("slot"), IntTok(slot)>>
       \o (IF se.hash # "none" THEN <<Tstr("hash"), Bstr(se.hash, IMAGE_HASH_SIZE)>> ELSE <<>>)
       \o <<Tstr("version"), Tstr("1.0.0"), MapEnd>>

RECURSIVE bs_list_slots(_, _)
\* the for loop over the slots of image 0, from slot on
bs_list_slots(slot, env) ==
    IF slot >= BOOT_NUM_SLOTS
    THEN <<>>
    ELSE LET o == flash_area_open(flash_area_id_from_multi_image_slot(0, slot))
         IN (IF o.rc # 0 \/ ~bs_list_validated(env.slot[slot])
             THEN <<>>
             ELSE bs_list_slot(env.swap, slot, env.slot[slot]))
            \o bs_list_slots(slot + 1, env)

bs_list(m, env) ==
    boot_grp_send(
        Encode(m, <<MapStart, Tstr("images"), ListStart>>
                  \o bs_list_slots(0, env)
                  \o <<ListEnd, MapEnd>>))

RECURSIVE bs_set_scan(_, _, _)
\* lines 293-332: the first image whose secondary slot carries the hash, or NULL
bs_set_scan(image_index, want, env) ==
    IF image_index >= BOOT_IMAGE_NUMBER
    THEN NULL
    ELSE LET o == flash_area_open(flash_area_id_from_multi_image_slot(image_index, 1))
             se == env.slot[1]
         IN IF o.rc # 0
            THEN bs_set_scan(image_index + 1, want, env)
            ELSE IF se.magic /\ ~se.valid
            THEN bs_set_scan(image_index + 1, want, env)
            ELSE IF se.hash # "none" /\ se.hash = want
            THEN image_index
            ELSE bs_set_scan(image_index + 1, want, env)

bs_set_out(m, rc, env) ==
    IF rc = 0
    THEN bs_list(m, env)
    ELSE boot_grp_send(Encode(m, <<MapStart, Tstr("rc"), IntTok(rc), MapEnd>>))

\* confirm and img_hash are not initialised: without their key they hold
\* env.ub_confirm and env.ub_hash
bs_set(m, pl, env) ==
    IF ~pl.map
    THEN bs_set_out(m, MGMT_ERR_EINVAL, env)
    ELSE LET confirm == IF pl.confirm = "absent" THEN env.ub_confirm ELSE pl.confirm = "true"
             img_hash == IF pl.hash = "absent" THEN env.ub_hash ELSE pl.hash
             hash_len == CASE img_hash = "len0" -> 0
                           [] img_hash = "short" -> IMAGE_HASH_SIZE - 1
                           [] OTHER -> IMAGE_HASH_SIZE
         IN IF (hash_len # IMAGE_HASH_SIZE /\ hash_len # 0)
               \/ (hash_len = 0 /\ BOOT_IMAGE_NUMBER > 1)
            THEN bs_set_out(m, MGMT_ERR_EINVAL, env)
            ELSE LET image_index == IF hash_len # 0 THEN bs_set_scan(0, img_hash, env) ELSE 0
                 IN IF image_index = NULL
                    THEN bs_set_out(m, MGMT_ERR_ENOENT, env)
                    ELSE bs_set_out(
                             [m EXCEPT !.calls =
                                 Append(@, Call("boot_set_pending_multi", image_index,
                                                IF confirm THEN 1 ELSE 0))],
                             env.pend_rc, env)

bs_list_set(m, op, pl, env) ==
    IF op = NMGR_OP_READ THEN bs_list(m, env) ELSE bs_set(m, pl, env)

(* ------------------------------------------------------------------ *)
(* Slot info, parameters, reset (boot_udp.c)                           *)
(* ------------------------------------------------------------------ *)
bs_slot_info_slot(slot) ==
    LET o == flash_area_open(flash_area_id_from_multi_image_slot(0, slot))
    IN (IF slot = 0
        THEN <<MapStart, Tstr("image"), IntTok(0), Tstr("slots"), ListStart>>
        ELSE <<>>)
       \o <<MapStart, Tstr("slot"), IntTok(slot)>>
       \o (IF o.rc # 0
           THEN <<Tstr("rc"), IntTok(o.rc)>>
           ELSE <<Tstr("size"), IntTok(o.fap.fa_size)>>
                \o (IF slot = 1 THEN <<Tstr("upload_image_id"), IntTok(0 * 2 + 1)>> ELSE <<>>)
                \o <<MapEnd>>
                \o (IF slot = BOOT_NUM_SLOTS - 1 THEN <<ListEnd, MapEnd>> ELSE <<>>))

bs_slot_info(m, op) ==
    IF op # NMGR_OP_READ
    THEN bs_rc_rsp(m, MGMT_ERR_ENOTSUP)
    ELSE LET toks == <<MapStart, Tstr("images"), ListStart>>
                     \o bs_slot_info_slot(0) \o bs_slot_info_slot(1)
                     \o <<ListEnd, MapEnd>>
         IN IF ~EncodeOk(m, toks)
            THEN bs_rc_rsp(reset_cbor_state(m), MGMT_ERR_ENOMEM)
            ELSE boot_grp_send(Encode(m, toks))

\* a variant that reboots before it acknowledges
bs_reset_unacknowledged(m) ==
    [m EXCEPT !.calls = @ \o <<Call("sys_reboot", 0, 0)>>, !.halt = "rebooted"]
bs_reset(m) ==
    LET hdr == [m.hdr EXCEPT !.nh_len = 0, !.nh_group = htons(m.hdr.nh_group)]
    IN [m EXCEPT !.hdr = hdr,
                 !.sent = Append(@, Wire(hdr, <<>>, m.client)),
                 !.calls = @ \o <<Call("sendto", NMGR_HDR_SIZE, 0), Call("k_msleep", 250, 0),
                                  Call("sys_reboot", 0, 0)>>,
                 !.halt = "rebooted"]

bs_params(m, op) ==
    IF op # NMGR_OP_READ
    THEN bs_rc_rsp(m, MGMT_ERR_ENOTSUP)
    ELSE boot_grp_send(
             Encode(m, <<MapStart, Tstr("buf_size"), IntTok(UDP_BUFFER_SIZE),
                         Tstr("buf_count"), IntTok(1), MapEnd>>))

(* ------------------------------------------------------------------ *)
(* Dispatcher (boot_udp.c, boot_grp_procces)                           *)
(* ------------------------------------------------------------------ *)
\* the header check of lines 622-626
HeaderDropped(hdr, len) ==
    \/ len < NMGR_HDR_SIZE
    \/ (hdr.nh_op # NMGR_OP_READ /\ hdr.nh_op # NMGR_OP_WRITE)
    \/ ntohs(hdr.nh_len) < len - NMGR_HDR_SIZE

\* a variant that serves the group PERUSER like the group IMAGE
Route_peruser(m, pl, env) ==
    LET hdr == m.hdr
    IN CASE hdr.nh_group \in {MGMT_GROUP_ID_IMAGE, MGMT_GROUP_ID_PERUSER} ->
              (CASE hdr.nh_id = NMGR_ID_STATE -> bs_list_set(m, hdr.nh_op, pl, env)
                 [] hdr.nh_id = NMGR_ID_UPLOAD -> bs_upload(m, pl, env)
                 [] hdr.nh_id = NMGR_ID_SLOT_INFO -> bs_slot_info(m, hdr.nh_op)
                 [] OTHER -> bs_rc_rsp(m, MGMT_ERR_ENOTSUP))
         [] hdr.nh_group = MGMT_GROUP_ID_OS ->
              (CASE hdr.nh_id = NMGR_ID_RESET -> bs_reset(m)
                 [] hdr.nh_id = NMGR_ID_PARAMS -> bs_params(m, hdr.nh_op)
                 [] OTHER -> bs_rc_rsp(m, MGMT_ERR_ENOTSUP))
         [] OTHER -> bs_rc_rsp(m, MGMT_ERR_ENOTSUP)
\* the switch of lines 633-669, on the group in host order
Route(m, pl, env) ==
    LET hdr == m.hdr
    IN CASE hdr.nh_group = MGMT_GROUP_ID_IMAGE ->
              (CASE hdr.nh_id = NMGR_ID_STATE -> bs_list_set(m, hdr.nh_op, pl, env)
                 [] hdr.nh_id = NMGR_ID_UPLOAD -> bs_upload(m, pl, env)
                 [] hdr.nh_id = NMGR_ID_SLOT_INFO -> bs_slot_info(m, hdr.nh_op)
                 [] OTHER -> bs_rc_rsp(m, MGMT_ERR_ENOTSUP))
         [] hdr.nh_group = MGMT_GROUP_ID_OS ->
              (CASE hdr.nh_id = NMGR_ID_RESET -> bs_reset(m)
                 [] hdr.nh_id = NMGR_ID_PARAMS -> bs_params(m, hdr.nh_op)
                 [] OTHER -> bs_rc_rsp(m, MGMT_ERR_ENOTSUP))
         [] OTHER -> bs_rc_rsp(m, MGMT_ERR_ENOTSUP)

\* m.hdr is the header at the start of udp_buffer, len the datagram length
boot_grp_procces(m, len, pl, env) ==
    IF HeaderDropped(m.hdr, len)
    THEN m
    ELSE Route(reset_cbor_state([m EXCEPT !.hdr.nh_group = ntohs(m.hdr.nh_group)]), pl, env)

(* ------------------------------------------------------------------ *)
(* Inputs: datagrams and the answers of the environment                *)
(* ------------------------------------------------------------------ *)

\* byte i of the image with pattern p (never 0 and never the erased value)
Pat(p, i) == 64 * p + i + 1
Data(p, off, n) == [i \in 1..n |-> Pat(p, off + i - 1)]

NullChunk == [null |-> TRUE, bytes |-> <<>>]
\* what an uninitialised img_chunk_data can hold: a null pointer, or a stale
\* pointer with a stale length
UBChunks == {NullChunk, [null |-> FALSE, bytes |-> <<>>],
             [null |-> FALSE, bytes |-> <<7, 7, 7, 7>>]}

Pl(map, image, has_data, data, len, off, confirm, hash) ==
    [map |-> map, image |-> image, has_data |-> has_data, data |-> data,
     len |-> len, off |-> off, confirm |-> confirm, hash |-> hash]

NoPayload == Pl(FALSE, Absent, FALSE, <<>>, Absent, Absent, "absent", "absent")
EmptyMap == Pl(TRUE, Absent, FALSE, <<>>, Absent, Absent, "absent", "absent")
UploadPl(off, len, image, has_data, data) ==
    Pl(TRUE, image, has_data, data, len, off, "absent", "absent")
SetPl(confirm, hash) == Pl(TRUE, Absent, FALSE, <<>>, Absent, Absent, confirm, hash)

\* bytes of the payload on the wire
PlSize(pl) ==
    IF ~pl.map
    THEN 0
    ELSE 2 + (IF pl.image # Absent THEN 7 ELSE 0)
           + (IF pl.has_data THEN 6 + Len(pl.data) ELSE 0)
           + (IF pl.len # Absent THEN 5 ELSE 0)
           + (IF pl.off # Absent THEN 5 ELSE 0)
           + (IF pl.confirm # "absent" THEN 9 ELSE 0)
           + (IF pl.hash = "absent" THEN 0
              ELSE IF pl.hash = "len0" THEN 6
              ELSE IF pl.hash = "short" THEN 6 + IMAGE_HASH_SIZE
              ELSE 7 + IMAGE_HASH_SIZE)

MaxOff == APPLICATION_SIZE + 1
\* every chunk length of the first pattern, one word of the second
ChunkData(off) == {Data(1, off, n) : n \in 0..MaxChunk} \cup {Data(2, off, FLASH_ALIGN)}

\* off = 0 with every total length, every other offset, with every chunk
UploadPayloads ==
    {UploadPl(0, len, Absent, TRUE, d) : len \in {Absent} \cup 0..MaxOff, d \in ChunkData(0)}
    \cup {UploadPl(0, FLASH_ALIGN, image, TRUE, Data(1, 0, n)) : image \in {0, 1}, n \in {2, FLASH_ALIGN}}
    \cup UNION {{UploadPl(off, Absent, Absent, TRUE, d) : d \in ChunkData(off)} : off \in 1..MaxOff}

\* requests that lack the data key or the off key
UploadPayloadsPartial ==
    {UploadPl(0, len, Absent, FALSE, <<>>) : len \in {Absent, 0, FLASH_ALIGN}}
    \cup {UploadPl(off, Absent, Absent, FALSE, <<>>) : off \in 1..MaxOff}
    \cup {UploadPl(Absent, Absent, Absent, has, <<>>) : has \in BOOLEAN}

\* the requests on which the environment misbehaves
UploadPayloadsEnv ==
    {UploadPl(0, len, Absent, TRUE, Data(1, 0, n)) :
        len \in {0, FLASH_ALIGN, APPLICATION_SIZE - 1}, n \in {0, 2, FLASH_ALIGN}}
    \cup {UploadPl(FLASH_ALIGN, Absent, Absent, TRUE, Data(1, FLASH_ALIGN, n)) : n \in {0, 3, FLASH_ALIGN}}

SlotEnv(magic, valid, hash, nonboot) ==
    [magic |-> magic, valid |-> valid, hash |-> hash, nonboot |-> nonboot]
SlotEnvs ==
    {SlotEnv(FALSE, FALSE, "H1", FALSE), SlotEnv(TRUE, FALSE, "H1", FALSE),
     SlotEnv(TRUE, TRUE, "H1", FALSE), SlotEnv(TRUE, TRUE, "none", TRUE)}
SwapTypes == {"NONE", "TEST", "PERM", "REVERT", "FAIL"}

EnvOK ==
    [erase_ok |-> TRUE, read_ok |-> TRUE, write_fail |-> 0, hook_rc |-> 0, pend_rc |-> 0,
     div0 |-> "cont", ub_chunk |-> NullChunk, ub_confirm |-> FALSE, ub_hash |-> "len0",
     swap |-> "NONE",
     slot |-> [s \in 0..(BOOT_NUM_SLOTS - 1) |-> SlotEnv(TRUE, TRUE, "H1", FALSE)]]

\* one deviation of the environment per request
UploadEnvs ==
    {[EnvOK EXCEPT !.erase_ok = FALSE], [EnvOK EXCEPT !.read_ok = FALSE],
     [EnvOK EXCEPT !.write_fail = 1], [EnvOK EXCEPT !.write_fail = 2],
     [EnvOK EXCEPT !.hook_rc = 7], [EnvOK EXCEPT !.pend_rc = 9]}

\* the outcomes of the undefined behaviour a request can run into
UBEnvs(pl) ==
    {[EnvOK EXCEPT !.ub_chunk = c, !.div0 = d] :
        c \in IF pl.has_data THEN {NullChunk} ELSE UBChunks,
        d \in IF pl.len = 0 THEN {"cont", "trap"} ELSE {"cont"}}

ListEnvs ==
    {[EnvOK EXCEPT !.swap = sw, !.slot = [s \in 0..1 |-> IF s = 0 THEN s0 ELSE s1]] :
        sw \in SwapTypes,
        s0 \in {SlotEnv(TRUE, TRUE, "H1", FALSE), SlotEnv(FALSE, FALSE, "none", FALSE)},
        s1 \in SlotEnvs}

SetEnvs(pl) ==
    {[EnvOK EXCEPT !.swap = sw, !.slot = [s \in 0..1 |-> IF s = 0 THEN @[0] ELSE s1],
                   !.pend_rc = prc, !.ub_confirm = uc, !.ub_hash = uh] :
        sw \in {"NONE", "TEST"}, s1 \in SlotEnvs, prc \in {0, 9},
        uc \in IF pl.confirm = "absent" THEN BOOLEAN ELSE {FALSE},
        uh \in IF pl.hash = "absent" THEN {"len0", "short", "H1"} ELSE {"len0"}}

Dg(len, b0, nh_len, group, seq, id, from, pl, env) ==
    [len |-> len, b0 |-> b0, nh_len |-> nh_len, group |-> group, seq |-> seq, id |-> id,
     from |-> from, pl |-> pl, env |-> env]

NoDg == Dg(Absent, 0, 0, 0, 0, 0, 0, NoPayload, EnvOK)

UploadDg(pl, env) ==
    Dg(NMGR_HDR_SIZE + PlSize(pl), NMGR_OP_WRITE, PlSize(pl), MGMT_GROUP_ID_IMAGE, 7,
       NMGR_ID_UPLOAD, 1, pl, env)

\* well-framed upload requests
UploadDatagrams ==
    UNION {{UploadDg(pl, env) : env \in UBEnvs(pl)} : pl \in UploadPayloads \cup UploadPayloadsPartial}
    \cup {UploadDg(pl, env) : pl \in UploadPayloadsEnv, env \in UploadEnvs}

StateDg(b0, pl, env) ==
    Dg(NMGR_HDR_SIZE + PlSize(pl), b0, PlSize(pl), MGMT_GROUP_ID_IMAGE, 7, NMGR_ID_STATE, 1, pl, env)

SetPayloads ==
    {NoPayload, SetPl("false", "H1"), SetPl("true", "H2"), SetPl("absent", "absent"),
     SetPl("true", "short"), SetPl("true", "absent"), SetPl("false", "len0")}

\* well-framed list and set requests
StateDatagrams ==
    {StateDg(NMGR_OP_READ, EmptyMap, env) : env \in ListEnvs}
    \cup UNION {{StateDg(NMGR_OP_WRITE, pl, env) : env \in SetEnvs(pl)} : pl \in SetPayloads}

AnUpload == UploadPl(0, FLASH_ALIGN, Absent, TRUE, Data(1, 0, FLASH_ALIGN))

\* well-framed requests to every (op, group, id), from two peers
RouteDatagrams ==
    {Dg(NMGR_HDR_SIZE + PlSize(pl), b0, PlSize(pl), group, sf[1], id, sf[2], pl, EnvOK) :
        b0 \in {NMGR_OP_READ, NMGR_OP_WRITE},
        group \in {MGMT_GROUP_ID_OS, MGMT_GROUP_ID_IMAGE, MGMT_GROUP_ID_PERUSER, 256},
        id \in {NMGR_ID_STATE, NMGR_ID_UPLOAD, NMGR_ID_RESET, NMGR_ID_PARAMS, 9},
        sf \in {<<7, 1>>, <<200, 2>>},
        pl \in {EmptyMap, AnUpload}}

FrameDgs(pl) ==
    {Dg(len, b0, nh_len, gi[1], 9, gi[2], 1, pl, EnvOK) :
        len \in {0, NMGR_HDR_SIZE - 1, NMGR_HDR_SIZE + PlSize(pl)},
        b0 \in {0, 1, 2, 3, 10},
        nh_len \in {0, PlSize(pl) - 1, PlSize(pl), PlSize(pl) + 1, 65535} \ {0 - 1},
        gi \in {<<MGMT_GROUP_ID_OS, NMGR_ID_PARAMS>>, <<MGMT_GROUP_ID_IMAGE, NMGR_ID_UPLOAD>>}}

\* datagrams with any first byte, length field and length
FrameDatagrams == UNION {FrameDgs(pl) : pl \in {NoPayload, EmptyMap, AnUpload}}

\* a few uploads among the other requests
SomeUploadDatagrams ==
    UNION {{UploadDg(pl, env) : env \in UBEnvs(pl)} : pl \in UploadPayloadsEnv}

Datagrams == StateDatagrams \cup RouteDatagrams \cup FrameDatagrams \cup SomeUploadDatagrams

(* ------------------------------------------------------------------ *)
(* The server: boot_udp_start and its receive loop                     *)
(* ------------------------------------------------------------------ *)
\* peer: the image a cooperating peer is uploading (its size, where its last
\* chunk ended, whether it has sent every chunk where the previous one ended,
\* whether it has sent every chunk at the off of the previous reply)
\* pre: the upload cursor and the flash as boot_grp_procces found them
VARIABLES pc, img_num, img_size, curr_off, flash, cbor, dg, sent, raw, calls, pre, peer, io

vars == <<pc, img_num, img_size, curr_off, flash, cbor, dg, sent, raw, calls, pre, peer, io>>

\* the header fields as the little-endian target reads them from udp_buffer
HdrOf(d) ==
    [nh_op |-> d.b0 % 8, nh_len |-> Swap16(d.nh_len), nh_group |-> Swap16(d.group),
     nh_seq |-> d.seq, nh_id |-> d.id]

\* the statics of boot_udp.c as boot_grp_procces finds them: udp_buffer and
\* client_addr hold the datagram just received
Mach ==
    [img_num |-> img_num, img_size |-> img_size, curr_off |-> curr_off, flash |-> flash,
     cbor |-> cbor, hdr |-> HdrOf(dg), client |-> dg.from, sent |-> sent, raw |-> raw,
     calls |-> calls, halt |-> ""]

Statics == [img_num |-> img_num, img_size |-> img_size, curr_off |-> curr_off, flash |-> flash]
NoPre == [img_num |-> 0, img_size |-> 0, curr_off |-> 0, flash |-> <<>>]

Peer(size, end, byEnd, byAck) == [size |-> size, end |-> end, byEnd |-> byEnd, byAck |-> byAck]

\* a call of the flash map by a caller other than the server, and what it returned
\* (ok: whether the raw driver is in working order during the call)
Io(fn, fa, off, len, dest_aligned, ok, rc, data) ==
    [fn |-> fn, fa |-> fa, off |-> off, len |-> len, dest_aligned |-> dest_aligned,
     ok |-> ok, rc |-> rc, data |-> data]
NoIo == Io("", NoArea, 0, 0, TRUE, TRUE, 0, <<>>)

Init ==
    /\ pc = "start"
    /\ img_num = 0
    /\ img_size = 0
    /\ curr_off = 0
    /\ flash = [a \in FlashAddrs |-> 90]
    /\ cbor = <<>>
    /\ dg = NoDg
    /\ sent = <<>>
    /\ raw = <<>>
    /\ calls = <<>>
    /\ pre = NoPre
    /\ peer = Peer(0, 0, FALSE, FALSE)
    /\ io = NoIo

\* zsock_setsockopt(SO_RCVTIMEO): on failure the socket is closed
Setup ==
    /\ pc = "start"
    /\ \E ok \in BOOLEAN : pc' = IF ok THEN "recv" ELSE "closed"
    /\ UNCHANGED <<img_num, img_size, curr_off, flash, cbor, dg, sent, raw, calls, pre, peer, io>>

\* zsock_recvfrom returns a datagram of D in udp_buffer and its sender
Receive(D) ==
    /\ pc = "recv"
    /\ \E d \in D : dg' = d
    /\ pc' = "proc"
    /\ UNCHANGED <<img_num, img_size, curr_off, flash, cbor, sent, raw, calls, pre, peer, io>>

\* the first chunk of an image of the first pattern
ImageFirst(size, n) == UploadPl(0, size, Absent, TRUE, Data(1, 0, n))
\* a later chunk of it
ImageNext(off, n) == UploadPl(off, Absent, Absent, TRUE, Data(1, off, n))

\* zsock_recvfrom returns the next chunk of the image of a cooperating peer: the
\* first chunk of a new image, or a chunk that starts where the peer's previous
\* chunk ended or at the off of the previous reply (the cursor)
ReceiveImage ==
    /\ pc = "recv"
    /\ \/ \E size \in 0..APPLICATION_SIZE : \E n \in 0..Min(MaxChunk, size) :
             \E env \in UBEnvs(ImageFirst(size, n)) :
                /\ dg' = UploadDg(ImageFirst(size, n), env)
                /\ peer' = Peer(size, n, TRUE, TRUE)
       \/ /\ peer.byEnd \/ peer.byAck
          /\ \E off \in {peer.end, curr_off} \ {0} :
                /\ off < peer.size
                /\ \E n \in 1..Min(MaxChunk, peer.size - off) :
                      /\ dg' = UploadDg(ImageNext(off, n), EnvOK)
                      /\ peer' = Peer(peer.size, off + n, peer.byEnd /\ off = peer.end,
                                      peer.byAck /\ off = curr_off)
    /\ pc' = "proc"
    /\ UNCHANGED <<img_num, img_size, curr_off, flash, cbor, sent, raw, calls, pre, io>>

\* zsock_recvfrom fails with EAGAIN / EWOULDBLOCK: the loop returns
RecvTimeout ==
    /\ pc = "recv"
    /\ pc' = "returned"
    /\ calls' = <<Call("zsock_close", 0, 0)>>
    /\ UNCHANGED <<img_num, img_size, curr_off, flash, cbor, dg, sent, raw, pre, peer, io>>

\* zsock_recvfrom fails with another errno: logged, the loop goes on
RecvError ==
    /\ pc = "recv"
    /\ pc' = "loop"
    /\ calls' = <<Call("BOOT_LOG_ERR", 0, 0)>>
    /\ UNCHANGED <<img_num, img_size, curr_off, flash, cbor, dg, sent, raw, pre, peer, io>>

\* boot_grp_procces(udp_buffer, ret), to completion
Process ==
    /\ pc = "proc"
    /\ \E r \in {boot_grp_procces(Mach, dg.len, dg.pl, dg.env)} :
          /\ img_num' = r.img_num
          /\ img_size' = r.img_size
          /\ curr_off' = r.curr_off
          /\ flash' = r.flash
          /\ cbor' = r.cbor
          /\ sent' = r.sent
          /\ raw' = r.raw
          /\ calls' = r.calls
          /\ pc' = IF r.halt = "" THEN "loop" ELSE r.halt
    /\ pre' = Statics
    /\ UNCHANGED <<dg, peer, io>>

\* back at the head of while (1): the datagram, and what the iteration sent and
\* called, are of the iteration that ended
LoopHead ==
    /\ pc = "loop"
    /\ pc' = "recv"
    /\ dg' = NoDg
    /\ sent' = <<>>
    /\ raw' = <<>>
    /\ calls' = <<>>
    /\ pre' = NoPre
    /\ UNCHANGED <<img_num, img_size, curr_off, flash, cbor, peer, io>>

\* the server, whatever the peers send
Next == Setup \/ Receive(Datagrams) \/ RecvTimeout \/ RecvError \/ Process \/ LoopHead

Spec == Init /\ [][Next]_vars

\* the server with peers that send well-framed upload requests only
NextUpload ==
    Setup \/ Receive(UploadDatagrams) \/ RecvTimeout \/ RecvError \/ Process \/ LoopHead

SpecUpload == Init /\ [][NextUpload]_vars

\* the server with a peer that uploads images chunk by chunk
NextImage == Setup \/ ReceiveImage \/ RecvTimeout \/ RecvError \/ Process \/ LoopHead

SpecImage == Init /\ [][NextImage]_vars

\* boot_grp_procces, once called, runs to its end: the steps of Process are the
\* steps that leave "proc"
Completes == pc = "proc" /\ pc' \in {"loop", "rebooted", "fault_div0", "fault_progress_overflow"}

\* the thread of boot_udp_start keeps running, and the peers eventually stop
\* sending: a receive that is attempted again and again eventually times out
Quiet ==
    /\ WF_vars(Setup)
    /\ WF_pc(Completes)
    /\ WF_vars(LoopHead)
    /\ SF_vars(RecvTimeout)

\* the server with peers that send well-framed requests of every route and a few
\* uploads
NextQuiet ==
    \/ Setup
    \/ Receive(RouteDatagrams \cup SomeUploadDatagrams)
    \/ RecvTimeout
    \/ RecvError
    \/ Process
    \/ LoopHead

SpecQuiet == Init /\ [][NextQuiet]_vars /\ Quiet

(* ------------------------------------------------------------------ *)
(* The flash map called directly (esp_mcuboot.c): one call on a device  *)
(* larger than the two slots, with arguments near 0 and near 2^32       *)
(* ------------------------------------------------------------------ *)
FlashTop == ReadSpan * FLASH_BUFFER_SIZE + 4 * FLASH_ALIGN

\* the device: every byte tells its address; the word at bad cannot be read
FlashImage(bad) ==
    [a \in 0..(FlashTop - 1) |->
        IF a >= bad /\ a < bad + FLASH_ALIGN THEN Unreadable ELSE (a * 7 + 3) % 251]

NoBad == 0 - FLASH_ALIGN
BadWords ==
    {NoBad, APPLICATION_SECONDARY_START_ADDRESS + FLASH_ALIGN, FLASH_BUFFER_SIZE + FLASH_ALIGN,
     2 * FLASH_BUFFER_SIZE + FLASH_ALIGN}

\* off and len of a call: near 0 and near 2^32
Args == (0..NearArgs) \cup ((U32 - NearArgs)..(U32 - 1))

\* where a long read starts, and how long it is: around every multiple of the
\* buffer size
ReadAddrs == 0..(2 * FLASH_ALIGN - 1)
ReadSizes ==
    {n \in 0..(ReadSpan * FLASH_BUFFER_SIZE) :
        \E k \in 0..ReadSpan : n - k * FLASH_BUFFER_SIZE \in (0 - 5)..5}

\* the bytes a caller hands to flash_area_write
SrcBytes(len) == [i \in 1..len |-> 100 + (i % 100)]

InitFlash ==
    /\ pc = "flash"
    /\ img_num = 0
    /\ img_size = 0
    /\ curr_off = 0
    /\ \E bad \in BadWords : flash = FlashImage(bad)
    /\ cbor = <<>>
    /\ dg = NoDg
    /\ sent = <<>>
    /\ raw = <<>>
    /\ calls = <<>>
    /\ pre = NoPre
    /\ peer = Peer(0, 0, FALSE, FALSE)
    /\ io = NoIo

\* flash_area_read(fa, off, dst, len)
AreaRead ==
    /\ pc = "flash"
    /\ \E i \in 1..Len(s_flash_areas), off \in Args, len \in Args, dest_aligned, ok \in BOOLEAN :
          \E r \in {flash_area_read(s_flash_areas[i], off, dest_aligned, len, flash, ok)} :
             /\ io' = Io("read", s_flash_areas[i], off, len, dest_aligned, ok, r.rc, r.data)
             /\ raw' = r.ops
    /\ pc' = "done"
    /\ pre' = Statics
    /\ UNCHANGED <<img_num, img_size, curr_off, flash, cbor, dg, sent, calls, peer>>

\* flash_area_write(fa, off, src, len)
AreaWrite ==
    /\ pc = "flash"
    /\ \E i \in 1..Len(s_flash_areas), off \in Args, len \in Args, read_ok, write_ok \in BOOLEAN :
          \E r \in {flash_area_write(s_flash_areas[i], off, SrcBytes(len), len, flash,
                                     read_ok, write_ok)} :
             /\ io' = Io("write", s_flash_areas[i], off, len, TRUE, write_ok, r.rc, SrcBytes(len))
             /\ raw' = r.ops
             /\ flash' = r.mem
    /\ pc' = "done"
    /\ pre' = Statics
    /\ UNCHANGED <<img_num, img_size, curr_off, cbor, dg, sent, calls, peer>>

\* flash_area_erase(fa, off, len)
AreaErase ==
    /\ pc = "flash"
    /\ \E i \in 1..Len(s_flash_areas), off \in Args, len \in Args, ok \in BOOLEAN :
          \E r \in {flash_area_erase(s_flash_areas[i], off, len, flash, ok)} :
             /\ io' = Io("erase", s_flash_areas[i], off, len, TRUE, ok, r.rc, <<>>)
             /\ raw' = r.ops
             /\ flash' = r.mem
    /\ pc' = "done"
    /\ pre' = Statics
    /\ UNCHANGED <<img_num, img_size, curr_off, cbor, dg, sent, calls, peer>>

\* aligned_flash_read(addr, dest, size), as flash_area_read calls it for an area
\* that holds the bytes read
ReadAligned ==
    /\ pc = "flash"
    /\ \E addr \in ReadAddrs, size \in ReadSizes, dest_aligned, ok \in BOOLEAN :
          \E r \in {flash_area_read_rc(aligned_flash_read(flash, addr, dest_aligned, size, ok))} :
             /\ io' = Io("aligned_read", NoArea, addr, size, dest_aligned, ok, r.rc, r.data)
             /\ raw' = r.ops
    /\ pc' = "done"
    /\ pre' = Statics
    /\ UNCHANGED <<img_num, img_size, curr_off, flash, cbor, dg, sent, calls, peer>>

NextFlash == AreaRead \/ AreaWrite \/ AreaErase \/ ReadAligned

SpecFlash == InitFlash /\ [][NextFlash]_vars

(* ------------------------------------------------------------------ *)
(* Properties                                                          *)
(* ------------------------------------------------------------------ *)
\* boot_grp_procces has returned (or halted) on the datagram dg
AfterProcess == dg # NoDg /\ pc # "proc"

\* the datagram passes the header check and is routed to bs_upload
ToUpload(d) ==
    /\ ~HeaderDropped(HdrOf(d), d.len)
    /\ d.group = MGMT_GROUP_ID_IMAGE
    /\ d.id = NMGR_ID_UPLOAD

Faults == {"fault_div0", "fault_progress_overflow"}

\* the payloads of the replies of bs_upload
OffReply(off) == <<MapStart, Tstr("rc"), IntTok(0), Tstr("off"), IntTok(off), MapEnd>>
RcReply(rc) == <<MapStart, Tstr("rc"), IntTok(rc), MapEnd>>

\* exactly one reply was sent, with this payload
Replied(payload) == Len(sent) = 1 /\ sent[1].payload = payload

\* exactly one reply was sent, carrying this rc
RepliedRc(rc) == Len(sent) = 1 /\ Len(sent[1].payload) >= 3 /\ sent[1].payload[3] = IntTok(rc)

RawOps(kinds) == {i \in 1..Len(raw) : raw[i].op \in kinds}

SecondaryBase == secondary_img0.fa_off

\* C1 (as claimed): after any sequence of upload requests the cursor satisfies
\* curr_off <= img_size, also after an accepted offset-0 chunk that carries
\* more data bytes than the declared total length
C1_CursorWithinImage == curr_off <= img_size

\* the image of the first pattern, size bytes long, is in the secondary area,
\* followed by the erased value up to the next alignment boundary
ImageStored(size) ==
    /\ \A i \in 0..(size - 1) : flash[SecondaryBase + i] = Pat(1, i)
    /\ \A i \in size..(ALIGN_UP(size, FLASH_ALIGN) - 1) : flash[SecondaryBase + i] = ERASED_VAL

\* the last chunk of the peer's image has been sent and processed
ImageSent == AfterProcess /\ peer.end = peer.size

CursorUnchanged ==
    /\ img_num = pre.img_num
    /\ img_size = pre.img_size
    /\ curr_off = pre.curr_off

\* the request that was processed is an upload request with the off and data keys
UploadAt(offs) ==
    /\ AfterProcess
    /\ ToUpload(dg)
    /\ dg.pl.map
    /\ dg.pl.has_data
    /\ dg.pl.off \in offs

\* C3 (as claimed): every upload request with off # 0 and off # curr_off, in any
\* reachable cursor state, is answered {rc:0, off:curr_off}, leaves the cursor
\* (img_num, img_size, curr_off) unchanged and issues no raw flash write or erase
C3_ReplayAcknowledged ==
    UploadAt((1..MaxOff) \ {pre.curr_off})
        => /\ pc = "loop"
           /\ Replied(OffReply(pre.curr_off))
           /\ CursorUnchanged
           /\ RawOps({"write", "erase"}) = {}

\* the request repeats the first chunk of the upload in flight: same total
\* length, not exceeded by the chunk, whose bytes are the bytes stored so far
FirstChunkDuplicate ==
    /\ UploadAt({0})
    /\ pre.curr_off > 0
    /\ pre.img_num = 0
    /\ dg.pl.image = Absent
    /\ dg.pl.len = pre.img_size
    /\ Len(dg.pl.data) = pre.curr_off
    /\ Len(dg.pl.data) <= dg.pl.len
    /\ \A i \in 1..Len(dg.pl.data) : pre.flash[SecondaryBase + i - 1] = dg.pl.data[i]
    /\ dg.env = EnvOK

\* C4 (as claimed): a duplicate of the first chunk of the upload in flight
\* (off = 0 arriving when curr_off > 0) is absorbed like any other duplicate:
\* the reply is {rc:0, off:curr_off} with curr_off unchanged, no additional raw
\* erase is performed, and flash contents are unchanged
C4_FirstChunkDuplicateAbsorbed ==
    FirstChunkDuplicate
        => /\ pc = "loop"
           /\ Replied(OffReply(pre.curr_off))
           /\ curr_off = pre.curr_off
           /\ RawOps({"erase"}) = {}
           /\ flash = pre.flash

\* the bytes of an offset-0 chunk of n bytes that bs_upload stores when the
\* declared total length is len
StoredOfFirst(n, len) == IF n < len THEN ALIGN_DOWN(n, FLASH_ALIGN) ELSE n

\* a request with off = 0, an image number that opens and a total length that
\* fits arrives while an upload is in flight
RestartRequest ==
    /\ UploadAt({0})
    /\ pre.curr_off > 0
    /\ dg.pl.image \in {Absent, 0}
    /\ dg.pl.len \in 0..APPLICATION_SIZE

\* C4 (amended): a request with off = 0 arriving when curr_off > 0 is never
\* absorbed as a duplicate, it restarts the upload: exactly one raw erase, of the
\* whole secondary area, is issued before any other raw operation; curr_off
\* restarts from 0 and ends at the number of bytes of this chunk that were
\* stored, or at 0; at most one reply is sent, and a reply {rc:0} carries that
\* new curr_off as off, with img_size the declared len
C4_FirstChunkRestarts ==
    RestartRequest
        => /\ raw # <<>>
           /\ raw[1] = RawOp("erase", SecondaryBase, APPLICATION_SIZE)
           /\ RawOps({"erase"}) = {1}
           /\ img_num = 0
           /\ curr_off \in {0, StoredOfFirst(Len(dg.pl.data), dg.pl.len)}
           /\ Len(sent) <= 1
           /\ RepliedRc(0)
                => /\ Replied(OffReply(StoredOfFirst(Len(dg.pl.data), dg.pl.len)))
                   /\ curr_off = StoredOfFirst(Len(dg.pl.data), dg.pl.len)
                   /\ img_size = dg.pl.len

\* an exact duplicate of the first chunk was answered like the first chunk, and
\* the secondary area was erased and written again
C4_Witness ==
    /\ FirstChunkDuplicate
    /\ Replied(OffReply(pre.curr_off))
    /\ RawOps({"erase"}) = {1}
    /\ RawOps({"write"}) # {}

\* the positions in calls of the calls of f made while the request was processed
CallsOf(f) == {i \in 1..Len(calls) : calls[i].f = f}

\* the chunk of the upload request was accepted: the request was at offset 0 or
\* at the cursor and the reply carries another rc than EINVAL (the hook and
\* boot_set_pending_multi of the model never answer EINVAL)
ChunkAccepted ==
    /\ AfterProcess
    /\ ToUpload(dg)
    /\ pc = "loop"
    /\ dg.pl.off \in {0, pre.curr_off}
    /\ Len(sent) = 1
    /\ ~RepliedRc(MGMT_ERR_EINVAL)

\* C5: when an accepted chunk brings curr_off to exactly img_size, the
\* post-upload hook is invoked first and then set_pending exactly once, with
\* (image 0, permanent = true); when the hook returns a non-zero code, that code
\* is the rc of the reply and set_pending is not invoked; no set_pending call
\* (and no hook call) happens while curr_off # img_size
C5_PendingOnCompletion ==
    (AfterProcess /\ ToUpload(dg))
        => /\ (ChunkAccepted /\ curr_off = img_size)
                => /\ Cardinality(CallsOf("boot_serial_uploaded_hook")) = 1
                   /\ dg.env.hook_rc = 0
                        => /\ Cardinality(CallsOf("boot_set_pending_multi")) = 1
                           /\ \A h \in CallsOf("boot_serial_uploaded_hook") :
                                 \A p \in CallsOf("boot_set_pending_multi") :
                                    /\ h < p
                                    /\ calls[p] = Call("boot_set_pending_multi", 0, 1)
                           /\ RepliedRc(dg.env.pend_rc)
                   /\ dg.env.hook_rc # 0
                        => /\ CallsOf("boot_set_pending_multi") = {}
                           /\ RepliedRc(dg.env.hook_rc)
           /\ curr_off # img_size
                => /\ CallsOf("boot_set_pending_multi") = {}
                   /\ CallsOf("boot_serial_uploaded_hook") = {}

\* the chunk after the first completes an image that fills the area: the hook
\* and then set_pending were called and the reply is {rc:0, off:img_size}
C5_Witness ==
    /\ ChunkAccepted
    /\ pre.curr_off > 0
    /\ pre.curr_off < img_size
    /\ curr_off = img_size
    /\ img_size = APPLICATION_SIZE
    /\ Len(calls) >= 2
    /\ calls[Len(calls) - 2].f = "boot_serial_uploaded_hook"
    /\ calls[Len(calls) - 1] = Call("boot_set_pending_multi", 0, 1)
    /\ Replied(OffReply(img_size))

\* C6: an offset-0 upload request whose declared total length exceeds the size
\* of the secondary area, or whose len key is absent, is answered {rc:3}
\* (EINVAL) without an off field, and no raw erase and no raw write is made
C6_OversizeRejected ==
    (/\ AfterProcess
     /\ ToUpload(dg)
     /\ dg.pl.map
     /\ dg.pl.off = 0
     /\ (dg.pl.len = Absent \/ dg.pl.len > APPLICATION_SIZE))
        => /\ pc = "loop"
           /\ Replied(RcReply(MGMT_ERR_EINVAL))
           /\ RawOps({"erase", "write"}) = {}
           /\ flash = pre.flash

\* an image one byte longer than the area is announced while an upload is in
\* flight, and is rejected
C6_Witness ==
    /\ UploadAt({0})
    /\ dg.pl.len = APPLICATION_SIZE + 1
    /\ Len(dg.pl.data) > 0
    /\ pre.curr_off > 0
    /\ Replied(RcReply(MGMT_ERR_EINVAL))

\* the raw flash operation lies within the secondary area
InSecondary(op) ==
    /\ op.addr >= SecondaryBase
    /\ op.addr + op.len <= SecondaryBase + APPLICATION_SIZE

\* C7 (as claimed): for every datagram delivered to the dispatcher, processing
\* ends in either no reply or exactly one reply and never reaches a fault state
\* (division by zero in the progress computation, or a raw flash access outside
\* the target area)
C7_NoFault ==
    AfterProcess
        => /\ pc \notin Faults
           /\ Len(sent) <= 1
           /\ \A i \in 1..Len(raw) : InSecondary(raw[i])

\* the datagram was dropped: boot_grp_procces returned, nothing was sent, the
\* cursor and the flash are as they were
Dropped ==
    /\ pc = "loop"
    /\ sent = <<>>
    /\ CursorUnchanged
    /\ flash = pre.flash

\* C8 (as claimed): a received datagram is dropped if and only if its length is
\* < 8, or its op is not READ(0) or WRITE(2), or its header length field
\* (big-endian) exceeds datagram_length - 8; every other datagram, also one
\* whose header length is smaller than the actual payload, is answered
C8_DropRule ==
    AfterProcess
        => (Dropped <=> \/ dg.len < NMGR_HDR_SIZE
                        \/ HdrOf(dg).nh_op \notin {NMGR_OP_READ, NMGR_OP_WRITE}
                        \/ dg.nh_len > dg.len - NMGR_HDR_SIZE)

RECURSIVE Balanced(_, _)
\* with depth containers open, toks closes the outermost one with its last item
\* and not before
Balanced(toks, depth) ==
    IF toks = <<>>
    THEN depth = 0
    ELSE IF depth = 0
    THEN FALSE
    ELSE Balanced(Tail(toks),
                  CASE Head(toks).k \in {"map", "list"} -> depth + 1
                    [] Head(toks).k = "end" -> depth - 1
                    [] OTHER -> depth)

\* the payload is what one request encodes: nothing, or one map that closes
\* with the last item
OneMap(toks) ==
    \/ toks = <<>>
    \/ Head(toks) = MapStart /\ Balanced(Tail(toks), 1)

\* C9 (as claimed): every datagram that passes header validation produces
\* exactly one reply, sent before the next datagram is received; the reply
\* carries the seq and id of the request unchanged, its group in big-endian, a
\* length field equal to the number of CBOR payload bytes encoded for this
\* request only, and is addressed to the sender of the request
C9_OneReplyPerRequest ==
    (AfterProcess /\ ~HeaderDropped(HdrOf(dg), dg.len))
        => /\ Len(sent) = 1
           /\ sent[1].seq = dg.seq
           /\ sent[1].id = dg.id
           /\ sent[1].op = HdrOf(dg).nh_op
           /\ sent[1].group = dg.group
           /\ sent[1].nh_len = CborLen(sent[1].payload)
           /\ OneMap(sent[1].payload)
           /\ sent[1].to = dg.from

\* the machine a handler is entered with: the statics as boot_grp_procces found
\* them, the group of the header in host order, the encoder reset
Entered ==
    [img_num |-> pre.img_num, img_size |-> pre.img_size, curr_off |-> pre.curr_off,
     flash |-> pre.flash, cbor |-> <<>>,
     hdr |-> [HdrOf(dg) EXCEPT !.nh_group = dg.group], client |-> dg.from,
     sent |-> <<>>, raw |-> <<>>, calls |-> <<>>, halt |-> ""]

\* what a handler leaves behind
Outcome(m) ==
    <<m.img_num, m.img_size, m.curr_off, m.flash, m.sent, m.raw, m.calls, m.halt>>

\* what the processing of the datagram left behind
Observed ==
    <<img_num, img_size, curr_off, flash, sent, raw, calls, IF pc = "loop" THEN "" ELSE pc>>

ParamsReply ==
    <<MapStart, Tstr("buf_size"), IntTok(2048), Tstr("buf_count"), IntTok(1), MapEnd>>

\* the request is answered {rc:8} and changes neither the cursor nor the flash
NotSupported ==
    /\ pc = "loop"
    /\ Replied(RcReply(MGMT_ERR_ENOTSUP))
    /\ CursorUnchanged
    /\ flash = pre.flash
    /\ raw = <<>>

\* C10: routing is total over (group, id, op): (IMAGE, STATE) runs list for READ
\* and set for WRITE; (IMAGE, UPLOAD) runs upload for either op; (IMAGE,
\* SLOT_INFO) and (OS, PARAMS) answer READ with their data ({buf_size:2048,
\* buf_count:1} for params) and WRITE with {rc:8}; (OS, RESET) runs reset; every
\* other (group, id), also every id of group PERUSER(64), is answered {rc:8}
\* and changes neither the upload cursor nor the flash
C10_RoutingTable ==
    (AfterProcess /\ ~HeaderDropped(HdrOf(dg), dg.len))
        => CASE dg.group = MGMT_GROUP_ID_IMAGE /\ dg.id = NMGR_ID_STATE ->
                  IF HdrOf(dg).nh_op = NMGR_OP_READ
                  THEN Observed = Outcome(bs_list(Entered, dg.env))
                  ELSE Observed = Outcome(bs_set(Entered, dg.pl, dg.env))
             [] dg.group = MGMT_GROUP_ID_IMAGE /\ dg.id = NMGR_ID_UPLOAD ->
                  Observed = Outcome(bs_upload(Entered, dg.pl, dg.env))
             [] dg.group = MGMT_GROUP_ID_IMAGE /\ dg.id = NMGR_ID_SLOT_INFO ->
                  IF HdrOf(dg).nh_op = NMGR_OP_READ
                  THEN Observed = Outcome(bs_slot_info(Entered, NMGR_OP_READ))
                  ELSE NotSupported
             [] dg.group = MGMT_GROUP_ID_OS /\ dg.id = NMGR_ID_PARAMS ->
                  IF HdrOf(dg).nh_op = NMGR_OP_READ
                  THEN pc = "loop" /\ Replied(ParamsReply) /\ CursorUnchanged /\ flash = pre.flash
                  ELSE NotSupported
             [] dg.group = MGMT_GROUP_ID_OS /\ dg.id = NMGR_ID_RESET ->
                  Observed = Outcome(bs_reset(Entered))
             [] OTHER -> NotSupported

\* a request to group PERUSER arrives while an upload is in flight and is
\* answered {rc:8}
C10_Witness ==
    /\ AfterProcess
    /\ ~HeaderDropped(HdrOf(dg), dg.len)
    /\ dg.group = MGMT_GROUP_ID_PERUSER
    /\ dg.id = NMGR_ID_UPLOAD
    /\ pre.curr_off > 0
    /\ NotSupported

\* the datagram passed the header check and is an (OS, RESET) request
ToReset(d) ==
    /\ ~HeaderDropped(HdrOf(d), d.len)
    /\ d.group = MGMT_GROUP_ID_OS
    /\ d.id = NMGR_ID_RESET

\* the reset request was acknowledged with a header-only datagram, and the
\* calls made are the send, the delay and the reboot, in this order
ResetAcknowledged ==
    /\ pc = "rebooted"
    /\ Len(sent) = 1
    /\ sent[1].nh_len = 0
    /\ sent[1].payload = <<>>
    /\ sent[1].seq = dg.seq
    /\ sent[1].id = dg.id
    /\ sent[1].to = dg.from
    /\ calls = <<Call("sendto", NMGR_HDR_SIZE, 0), Call("k_msleep", 250, 0),
                 Call("sys_reboot", 0, 0)>>

\* C11: on an (OS, RESET) request the acknowledgement with a zero-length payload
\* (header length field 0, same seq and id) is sent strictly before the reboot
\* primitive is invoked, the reboot is always invoked after it, and no further
\* datagram is received or processed between the acknowledgement and the reboot
\* (a rebooted server takes no further step)
C11_ResetAckThenReboot ==
    /\ []((AfterProcess /\ ToReset(dg)) => ResetAcknowledged)
    /\ [](pc = "rebooted" => (AfterProcess /\ ToReset(dg)))
    /\ [][pc = "rebooted" => UNCHANGED vars]_vars

\* a reset request of the second peer arrives while an upload is in flight
C11_Witness ==
    /\ AfterProcess
    /\ ToReset(dg)
    /\ dg.from = 2
    /\ pre.curr_off > 0
    /\ ResetAcknowledged

\* the positions of boot_udp_start: before the loop, in the loop, and after it
InLoop == {"recv", "proc", "loop"}
Exits == {"returned", "rebooted", "closed"}

\* the loop returns exactly on a receive that timed out, closing the socket
ReturnsOnTimeout ==
    /\ (pc' = "returned" /\ pc # "returned") => (pc = "recv" /\ RecvTimeout)
    /\ (pc = "recv" /\ pc' = "closed") => FALSE
    /\ pc' = "closed" => pc \in {"start", "closed"}
    /\ pc' = "rebooted" => (pc = "rebooted" \/ (pc = "proc" /\ ToReset(dg)))

\* a receive that failed otherwise leaves the loop running and the cursor alone
ErrorKeepsLoop ==
    (pc = "recv" /\ pc' \notin {"proc", "returned"})
        => /\ pc' \in {"recv", "loop"}
           /\ UNCHANGED <<img_num, img_size, curr_off, flash>>

\* C12: the dispatch loop returns control to the boot loader exactly when a
\* receive ends with a timeout; the only other ways out of the loop are the
\* reboot of a reset request and a failed timeout setup before the first receive;
\* another receive error leaves the loop running with the upload cursor
\* unchanged; and once the peers stop sending the loop eventually exits
C12_LoopExitsOnTimeout ==
    /\ [][ReturnsOnTimeout /\ ErrorKeepsLoop]_vars
    /\ [](pc \in {"start"} \cup InLoop \cup Exits)
    /\ <>(pc \in Exits)

\* the datagram passed the header check and is routed to bs_list_set
ToState(d) ==
    /\ ~HeaderDropped(HdrOf(d), d.len)
    /\ d.group = MGMT_GROUP_ID_IMAGE
    /\ d.id = NMGR_ID_STATE

\* the reply to a list or set request is a list response: {"images": [...]}
ListReply ==
    /\ ToState(dg)
    /\ Len(sent) = 1
    /\ Len(sent[1].payload) >= 5
    /\ sent[1].payload[1] = MapStart
    /\ sent[1].payload[2] = Tstr("images")
    /\ sent[1].payload[3] = ListStart

\* the positions at which the slot entries of the list response start
Entries == {i \in 4..Len(sent[1].payload) : sent[1].payload[i] = MapStart}

\* the entry that starts at i ends at the first end token after i
EntryEnd(i) ==
    CHOOSE j \in (i + 1)..Len(sent[1].payload) :
        /\ sent[1].payload[j].k = "end"
        /\ \A k \in (i + 1)..(j - 1) : sent[1].payload[k].k # "end"

\* the entry that starts at i carries key: true
EntryFlag(i, key) ==
    \E k \in (i + 1)..(EntryEnd(i) - 2) :
        sent[1].payload[k] = Tstr(key) /\ sent[1].payload[k + 1] = BoolTok(TRUE)

EntryFlags(i) == {key \in {"confirmed", "active", "pending", "permanent"} : EntryFlag(i, key)}

\* the slot number the entry that starts at i carries
EntrySlot(i) ==
    LET k == CHOOSE k \in (i + 1)..(EntryEnd(i) - 2) : sent[1].payload[k] = Tstr("slot")
    IN sent[1].payload[k + 1].n

\* the flags of a slot by swap type
FlagTable(swap, slot) ==
    CASE swap = "NONE" -> IF slot = 0 THEN {"confirmed", "active"} ELSE {}
      [] swap = "TEST" -> IF slot = 0 THEN {"confirmed"} ELSE {"pending"}
      [] swap = "PERM" -> IF slot = 0 THEN {"confirmed"} ELSE {"pending", "permanent"}
      [] swap = "REVERT" -> IF slot = 0 THEN {"active"} ELSE {"confirmed"}
      [] OTHER -> {}

\* C13: in every list response a slot entry appears only if the slot's area
\* opened, its header magic matched and its validation succeeded; the flags of an
\* entry are those of the swap-type table; so no slot is reported active, pending
\* or confirmed without validation, and at most one slot is reported active
C13_ListReportsValidatedSlots ==
    (AfterProcess /\ ListReply)
        => /\ \A i \in Entries :
                /\ EntrySlot(i) \in 0..(BOOT_NUM_SLOTS - 1)
                /\ flash_area_open(flash_area_id_from_multi_image_slot(0, EntrySlot(i))).rc = 0
                /\ dg.env.slot[EntrySlot(i)].magic
                /\ dg.env.slot[EntrySlot(i)].valid
                /\ EntryFlags(i) = FlagTable(dg.env.swap, EntrySlot(i))
           /\ \A i, j \in Entries : EntrySlot(i) = EntrySlot(j) => i = j
           /\ Cardinality({i \in Entries : EntryFlag(i, "active")}) <= 1

\* a list request answered with both slots, the secondary one pending and
\* permanent
C13_Witness ==
    /\ AfterProcess
    /\ dg.b0 = NMGR_OP_READ
    /\ ListReply
    /\ Cardinality(Entries) = 2
    /\ dg.env.swap = "PERM"
    /\ \E i \in Entries : EntrySlot(i) = 1 /\ EntryFlags(i) = {"pending", "permanent"}

\* a list response that leaves out a slot whose validation failed
C13_WitnessSkipped ==
    /\ AfterProcess
    /\ ListReply
    /\ dg.env.slot[1].magic
    /\ ~dg.env.slot[1].valid
    /\ \A i \in Entries : EntrySlot(i) = 0

\* the datagram is a set request that reached bs_set with a decodable map
ToSet(d) == ToState(d) /\ d.b0 = NMGR_OP_WRITE /\ d.pl.map

\* the calls of boot_set_pending_multi the request made
PendingCalls == {i \in 1..Len(calls) : calls[i].f = "boot_set_pending_multi"}

\* C14 (as claimed): for a set request with a (non-empty) hash, set_pending(image_index,
\* confirm) is invoked only for an image whose secondary slot passed image
\* validation (a magic match alone, or a magic mismatch, is never enough) and
\* whose hash equals the requested hash
C14_PendingOnlyValidated ==
    (AfterProcess /\ ToSet(dg) /\ dg.pl.hash \in {"H1", "H2", "short"})
        => \A i \in PendingCalls :
              /\ calls[i].a \in 0..(BOOT_IMAGE_NUMBER - 1)
              /\ dg.env.slot[1].magic
              /\ dg.env.slot[1].valid
              /\ dg.env.slot[1].hash = dg.pl.hash

\* the entry that starts at i carries this hash
EntryHash(i, hash) ==
    \E k \in (i + 1)..(EntryEnd(i) - 2) :
        /\ sent[1].payload[k] = Tstr("hash")
        /\ sent[1].payload[k + 1] = Bstr(hash, IMAGE_HASH_SIZE)

\* a set request with a hash and confirm = false for which boot_set_pending_multi
\* returned 0, the swap type read afterwards being that of a pending image
SetSucceeded ==
    /\ AfterProcess
    /\ ToSet(dg)
    /\ dg.pl.hash \in {"H1", "H2"}
    /\ dg.pl.confirm = "false"
    /\ PendingCalls # {}
    /\ dg.env.pend_rc = 0
    /\ dg.env.swap \in {"TEST", "PERM"}

\* C15 (as claimed, for the list carried in the set reply): after a set request
\* with hash H and confirm = false that succeeds, the list of the reply reports
\* the slot that contains the image with hash H with pending = true
C15_SetReplyReportsPending ==
    SetSucceeded
        => /\ ListReply
           /\ \E i \in Entries :
                 /\ EntrySlot(i) = 1
                 /\ EntryHash(i, dg.pl.hash)
                 /\ EntryFlag(i, "pending")

\* the request was answered {rc: rc} and boot_set_pending_multi was not called
SetRejected(rc) == RepliedRc(rc) /\ Len(sent[1].payload) = 4 /\ PendingCalls = {}

\* C16 (as claimed): a set request is rejected without invoking set_pending when
\* the hash is present with a length different from the hash size ({rc: 3}),
\* when the hash is absent and more than one image is configured ({rc: 3}), and
\* when the hash has the right length but is the hash of no secondary slot
\* ({rc: 5}); a set request without the hash key in a single-image configuration
\* invokes set_pending(0, confirm) with the confirm value of the request
C16_SetRejections ==
    (AfterProcess /\ ToSet(dg))
        => /\ dg.pl.hash \in {"short", "len0"} => SetRejected(MGMT_ERR_EINVAL)
           /\ (dg.pl.hash = "absent" /\ BOOT_IMAGE_NUMBER > 1) => SetRejected(MGMT_ERR_EINVAL)
           /\ (dg.pl.hash \in {"H1", "H2"} /\ dg.env.slot[1].hash # dg.pl.hash)
                 => SetRejected(MGMT_ERR_ENOENT)
           /\ (dg.pl.hash = "absent" /\ BOOT_IMAGE_NUMBER = 1 /\ dg.pl.confirm # "absent")
                 => /\ Cardinality(PendingCalls) = 1
                    /\ \A i \in PendingCalls :
                          /\ calls[i].a = 0
                          /\ calls[i].b = (IF dg.pl.confirm = "true" THEN 1 ELSE 0)

\* the call of the flash map has returned
Called(fns) == pc = "done" /\ io.fn \in fns

\* the call failed, no raw operation was issued and the flash is as it was
Refused == io.rc # 0 /\ raw = <<>> /\ flash = pre.flash

\* C17 (as claimed): for every area and every 32-bit off and len whose
\* mathematical sum off + len exceeds the size of the area, sums that wrap
\* around 2^32 included, flash_area_read and flash_area_write return an error
\* and issue no raw read or write
C17_OutOfBoundsRejected ==
    (Called({"read", "write"}) /\ io.off + io.len > io.fa.fa_size) => Refused

\* off and len of the call are multiples of the sector size
SectorAligned == io.off % FLASH_SECTOR_SIZE = 0 /\ io.len % FLASH_SECTOR_SIZE = 0

\* C18 (as claimed): for every sector-aligned off and len with off + len beyond
\* the size of the area, flash_area_erase returns an error and issues no raw
\* erase; every raw erase it issues lies within [base, base + size)
C18_EraseWithinArea ==
    Called({"erase"})
        => /\ (SectorAligned /\ io.off + io.len > io.fa.fa_size) => Refused
           /\ \A i \in 1..Len(raw) :
                 /\ raw[i].addr >= io.fa.fa_off
                 /\ raw[i].addr + raw[i].len <= io.fa.fa_off + io.fa.fa_size

\* C19: for every erase whose off or len is not a multiple of the sector size,
\* flash_area_erase returns an error, issues no raw erase and leaves the flash
\* unchanged
C19_MisalignedEraseRejected ==
    (Called({"erase"}) /\ ~SectorAligned) => Refused

\* an erase of one sector that starts one byte into the area
C19_Witness ==
    /\ Called({"erase"})
    /\ io.off = 1
    /\ io.len = FLASH_SECTOR_SIZE
    /\ io.fa = secondary_img0
    /\ Refused

\* a read that lies within its area: a call of flash_area_read, or the call of
\* aligned_flash_read such a read of a larger area makes
InBoundsRead ==
    /\ Called({"read", "aligned_read"})
    /\ io.fn = "read" => io.off + io.len <= io.fa.fa_size

\* the address the read starts at
ReadStart == (IF io.fn = "read" THEN io.fa.fa_off ELSE 0) + io.off

\* all of address, destination and length are 4-byte aligned
FastPath == ReadStart % 4 = 0 /\ io.dest_aligned /\ io.len % 4 = 0

\* one of the raw reads issued failed
RawReadFailed ==
    \E i \in 1..Len(raw) : ~bootloader_flash_read(pre.flash, raw[i].addr, raw[i].len, io.ok).ok

\* C20: for every in-bounds read, with any alignment of address, destination and
\* length and a length from 0 up to several buffer sizes, flash_area_read
\* delivers exactly the len bytes stored at [base + off, base + off + len) and
\* nothing beyond dst[len); every raw read has a 4-aligned address and a length
\* that is a multiple of 4, of at most the buffer size on the unaligned path; and
\* a failing raw read makes flash_area_read fail
C20_ReadDelivers ==
    InBoundsRead
        => /\ \A i \in 1..Len(raw) :
                 /\ raw[i].op = "read"
                 /\ raw[i].addr % 4 = 0
                 /\ raw[i].len % 4 = 0
                 /\ ~FastPath => raw[i].len <= FLASH_BUFFER_SIZE
           /\ Len(io.data) <= io.len
           /\ flash = pre.flash
           /\ RawReadFailed => io.rc # 0
           /\ ~RawReadFailed
                 => /\ io.rc = 0
                    /\ Len(io.data) = io.len
                    /\ \A k \in 1..io.len : io.data[k] = pre.flash[ReadStart + k - 1]

\* an unaligned read of two buffers and five bytes, made in three raw reads
C20_Witness ==
    /\ InBoundsRead
    /\ io.off = 3
    /\ io.len = 2 * FLASH_BUFFER_SIZE + 5
    /\ ~io.dest_aligned
    /\ Len(raw) = 3
    /\ io.rc = 0
    /\ io.data[io.len] = pre.flash[3 + io.len - 1]

\* a long read whose third raw read fails
C20_WitnessFailed ==
    /\ InBoundsRead
    /\ io.len > 2 * FLASH_BUFFER_SIZE
    /\ io.ok
    /\ Len(raw) = 3
    /\ io.rc # 0

\* an unaligned read inside the secondary slot
C20_WitnessArea ==
    /\ InBoundsRead
    /\ io.fn = "read"
    /\ io.fa = secondary_img0
    /\ io.off = 1
    /\ io.len = 6
    /\ io.rc = 0

\* a write of fewer than 4 bytes to a whole word of the area, the raw driver in
\* working order and every word of the device readable
PartialWrite ==
    /\ Called({"write"})
    /\ io.len < 4
    /\ io.off % FLASH_ALIGN = 0
    /\ io.off + FLASH_ALIGN <= io.fa.fa_size
    /\ io.fa.fa_off # 0
    /\ io.ok
    /\ \A a \in DOMAIN pre.flash : pre.flash[a] # Unreadable

\* C21 (as claimed): for every in-bounds flash_area_write with len < 4, len = 0
\* included, on an area whose base offset is not zero, the word written to
\* base + off consists of the len source bytes followed by the bytes stored at
\* base + off + len .. base + off + 3 before the call, so every byte of the area
\* outside [off, off + len) is unchanged after the write
C21_PartialWordKeepsRest ==
    PartialWrite
        => /\ io.rc = 0
           /\ \A a \in DOMAIN flash :
                 flash[a] = IF a >= io.fa.fa_off + io.off /\ a < io.fa.fa_off + io.off + io.len
                            THEN io.data[a - (io.fa.fa_off + io.off) + 1]
                            ELSE pre.flash[a]

\* the request is an upload request whose map lacks the data key or the off key
LacksKey == ToUpload(dg) /\ dg.pl.map /\ (~dg.pl.has_data \/ dg.pl.off = Absent)

\* C22 (as claimed): an upload request whose payload map lacks the data key or
\* the off key is always answered {rc: 3}, whatever earlier requests left in
\* memory, and changes neither the cursor nor the flash
C22_MissingKeyRejected ==
    (AfterProcess /\ LacksKey)
        => /\ pc = "loop"
           /\ Replied(RcReply(MGMT_ERR_EINVAL))
           /\ CursorUnchanged
           /\ flash = pre.flash
           /\ raw = <<>>

\* the upload request was answered with a non-zero rc
UploadRefused ==
    /\ AfterProcess
    /\ ToUpload(dg)
    /\ pc = "loop"
    /\ Len(sent) = 1
    /\ ~RepliedRc(0)

\* C23 (as claimed): every upload request that is answered with a non-zero rc
\* leaves the upload cursor (img_num, img_size, curr_off) exactly as it was
\* before the request; in particular a rejected offset-0 request does not
\* reset curr_off or change img_num
C23_RefusalKeepsCursor == UploadRefused => CursorUnchanged

\* an upload request with off # 0 and a data key was processed while the image
\* in flight was already complete (curr_off = img_size reached by an earlier chunk)
AfterCompletion ==
    /\ AfterProcess
    /\ ToUpload(dg)
    /\ dg.pl.map
    /\ dg.pl.has_data
    /\ dg.pl.off # Absent
    /\ dg.pl.off # 0
    /\ pre.curr_off > 0
    /\ pre.curr_off = pre.img_size

\* C24 (as claimed): between two consecutive accepted offset-0 chunks,
\* set_pending and the post-upload hook are invoked at most once: once
\* curr_off = img_size has been reached, no later request with off # 0 (a
\* zero-length chunk at off = img_size, a retransmission of the final chunk)
\* invokes them again
C24_PendingOncePerUpload ==
    AfterCompletion
        => /\ CallsOf("boot_set_pending_multi") = {}
           /\ CallsOf("boot_serial_uploaded_hook") = {}

\* the request continues the upload in flight: it is at the cursor, which is
\* below img_size, carries at least one data byte and no byte beyond img_size,
\* the flash works, and bs_upload ran to its end
NextChunk ==
    /\ UploadAt({pre.curr_off})
    /\ pre.curr_off > 0
    /\ pre.curr_off < pre.img_size
    /\ Len(dg.pl.data) >= 1
    /\ pre.curr_off + Len(dg.pl.data) <= pre.img_size
    /\ dg.env = EnvOK
    /\ pc = "loop"

\* C25 (as claimed): in an upload in flight with curr_off < img_size, every
\* request with off = curr_off, at least one data byte and
\* curr_off + chunk_len <= img_size, whose flash writes succeed, strictly
\* increases curr_off, for every chunk size including chunks shorter than the
\* 4-byte alignment unit (so that a peer that keeps sending the next chunk at
\* the acknowledged off reaches curr_off = img_size)
C25_ChunkAdvances == NextChunk => curr_off > pre.curr_off

\* an upload request with off # 0 was answered {rc: 0, off: the cursor before
\* the request}: no byte was committed
NothingCommitted ==
    /\ UploadAt(1..MaxOff)
    /\ pc = "loop"
    /\ Replied(OffReply(pre.curr_off))

\* C26 (as claimed): an upload request whose reply reports the same off as
\* the cursor held before the request leaves the contents of the secondary
\* area unchanged; a chunk of 1 to 3 bytes at off = curr_off that does not
\* reach img_size, and a zero-length chunk, cause no raw flash write
C26_NoCommitNoWrite ==
    NothingCommitted
        => /\ flash = pre.flash
           /\ RawOps({"write"}) = {}

====
